---- MODULE Spec2Model ----
(***************************************************************************)
(* SAT-Chains: SAT-based minor embedding.                                  *)
(*                                                                         *)
(* The three CNF generators (cnf_generator.py: connected subsets with      *)
(* clause de-duplication; cnf_generator_path.py: simple paths, clauses     *)
(* written while the file is written; cnf_generator_qubit_max.py:          *)
(* connected subsets filtered by fixed_mapping, optional qubit budget),    *)
(* the solver adapter (solver_interface.py) and the enumeration loop       *)
(* (experiment_runner.py: solve, decode, block, rewrite, solve again).     *)
(*                                                                         *)
(* Python values: a list is a sequence, a dict is a function, a tuple is   *)
(* a sequence, None is the empty set and an optional integer n is {n}.     *)
(* List indices are 0-based in the source; valid_chains[i][idx] of the     *)
(* source is valid_chains[i][idx + 1] here.                                *)
(***************************************************************************)
EXTENDS Integers, Sequences, FiniteSets, TLC

\* ------------------------------------------------------------------------
\* Python helpers
\* ------------------------------------------------------------------------
Range(s) == {s[k] : k \in 1..Len(s)}

IsNone(x) == x = {}

Val(x) == CHOOSE v \in x : TRUE

Min(S) == CHOOSE m \in S : \A x \in S : m <= x

RECURSIVE sorted(_)
\* sorted(iterable of integers): ascending list
sorted(S) ==
    IF S = {} THEN <<>>
    ELSE LET m == Min(S) IN <<m>> \o sorted(S \ {m})

RECURSIVE Flatten(_)
\* concatenation of a list of lists, in order (nested for-loops appending)
Flatten(ss) ==
    IF Len(ss) = 0 THEN <<>> ELSE Head(ss) \o Flatten(Tail(ss))

RECURSIVE combinations(_, _)
\* itertools.combinations(seq, k): the k-tuples of seq, in lexicographic
\* order of positions
combinations(seq, k) ==
    IF k = 0 THEN << <<>> >>
    ELSE IF Len(seq) < k THEN <<>>
    ELSE LET withHead == combinations(Tail(seq), k - 1)
             without  == combinations(Tail(seq), k)
         IN  [n \in 1..Len(withHead) |-> <<Head(seq)>> \o withHead[n]] \o without

\* tuple comparison of Python: lexicographic, a proper prefix is smaller
LexLess(a, b) ==
    \/ \E k \in 1..Len(a) :
          /\ k <= Len(b)
          /\ a[k] < b[k]
          /\ \A m \in 1..(k - 1) : a[m] = b[m]
    \/ /\ Len(a) < Len(b)
       /\ \A m \in 1..Len(a) : a[m] = b[m]

RECURSIVE SortTuples(_)
SortTuples(S) ==
    IF S = {} THEN <<>>
    ELSE LET m == CHOOSE x \in S : \A y \in S \ {x} : LexLess(x, y)
         IN  <<m>> \o SortTuples(S \ {m})

Reverse(s) == [k \in 1..Len(s) |-> s[Len(s) + 1 - k]]

\* ------------------------------------------------------------------------
\* Graphs (networkx): nodes, edges, has_edge, neighbors, is_connected
\* ------------------------------------------------------------------------
has_edge(E, u, v) == {u, v} \in E /\ u # v

neighbors(E, u) == {v \in UNION E : has_edge(E, u, v)}

RECURSIVE Reach(_, _, _)
Reach(E, S, R) ==
    LET R2 == R \cup {v \in S : \E u \in R : has_edge(E, u, v)}
    IN  IF R2 = R THEN R ELSE Reach(E, S, R2)

\* nx.is_connected(G_phys.subgraph(nodes)), nodes non-empty
is_connected(E, S) == S # {} /\ Reach(E, S, {Min(S)}) = S

\* ------------------------------------------------------------------------
\* Inputs of one run.  cfg is the experiment configuration together with
\* the two graphs:
\*   pn, pe   physical nodes and edges (edges as 2-element sets)
\*   ln, le   logical nodes and edges (G_log.edges() as a list of pairs)
\*   default_allowed_expansions, per_node, fixed_mapping, max_total_qubits
\*            the embedding_constraints (fixed_mapping as the list of its
\*            items, in dict order)
\*   timeout_seconds, max_attempts
\*   variant  which generator module is installed as cnf_generator
\*   solver   which solver module the runner calls
\*   set_order  iteration order of the Python set in generate_path_chains
\* ------------------------------------------------------------------------
physical_nodes(cfg) == sorted(cfg.pn)

logical_nodes(cfg) == sorted(cfg.ln)

\* embedding_constraints.get("per_node", {}).get(i, default_allowed)
allowed_sizes(cfg, i) ==
    IF i \in DOMAIN cfg.per_node THEN cfg.per_node[i]
    ELSE cfg.default_allowed_expansions

\* set(fixed.get(i, []))
required_nodes(cfg, i) ==
    UNION {cfg.fixed_mapping[k][2] :
              k \in {m \in 1..Len(cfg.fixed_mapping) : cfg.fixed_mapping[m][1] = i}}

\* CNFGenerator.__init__
NewGenerator ==
    [embeddable     |-> TRUE,
     reject_reasons |-> <<>>,
     valid_chains   |-> <<>>,
     chain_var_map  |-> <<>>,
     num_vars       |-> 0,
     clauses        |-> <<>>,
     clause_set     |-> {},
     raised         |-> FALSE]

\* for idx, _ in enumerate(chains): chain_var_map[(i, idx)] = vid; vid += 1
AssignVars(cvm, i, n, vid) ==
    cvm @@ [p \in {<<i, idx>> : idx \in 0..(n - 1)} |-> vid + p[2]]

\* a faulty chain generator that keeps every subset of a permitted size,
\* connected or not; the chain well-formedness property must reject it
SubsetChainsUnconnected(cfg, i) ==
    LET allowed == allowed_sizes(cfg, i)
    IN  Flatten([n \in 1..Len(allowed) |->
           combinations(physical_nodes(cfg), allowed[n])])

\* ---- cnf_generator.py: connected subsets ------------------------------
SubsetChains(cfg, i) ==
    LET allowed == allowed_sizes(cfg, i)
    IN  Flatten([n \in 1..Len(allowed) |->
           SelectSeq(combinations(physical_nodes(cfg), allowed[n]),
                     LAMBDA nodes : is_connected(cfg.pe, Range(nodes)))])

RECURSIVE generate_chain_variables_loop(_, _, _, _)
generate_chain_variables_loop(cfg, g, vid, k) ==
    IF k > Len(logical_nodes(cfg))
    THEN [g EXCEPT !.num_vars = vid - 1]
    ELSE LET i      == logical_nodes(cfg)[k]
             chains == SubsetChains(cfg, i)
         IN  IF Len(chains) = 0
             THEN generate_chain_variables_loop(cfg,
                     [g EXCEPT !.embeddable = FALSE,
                               !.reject_reasons = Append(@, <<"no_chain", i>>)],
                     vid, k + 1)
             ELSE generate_chain_variables_loop(cfg,
                     [g EXCEPT !.valid_chains = @ @@ (i :> chains),
                               !.chain_var_map = AssignVars(@, i, Len(chains), vid)],
                     vid + Len(chains), k + 1)

generate_chain_variables(cfg, g) ==
    generate_chain_variables_loop(cfg, [g EXCEPT !.valid_chains = <<>>], 1, 1)

\* ---- cnf_generator_path.py: simple paths ------------------------------
RECURSIVE SimplePaths(_, _, _)
\* the paths of exactly `length` nodes that the stack search of
\* generate_path_chains collects (for nb in neighbors(node): if nb not in
\* path: push path + (nb,)), as a set of tuples
SimplePaths(cfg, paths, length) ==
    IF length <= 1 THEN paths
    ELSE SimplePaths(cfg,
            {Append(e[1], e[2]) :
                e \in {x \in paths \X cfg.pn :
                          /\ x[2] \in neighbors(cfg.pe, x[1][Len(x[1])])
                          /\ x[2] \notin Range(x[1])}},
            length - 1)

\* list({tuple(sorted(c)) for c in chains}) over every allowed length
PathChains(cfg, i) ==
    LET allowed == allowed_sizes(cfg, i)
        found   == UNION {SimplePaths(cfg, {<<s>> : s \in cfg.pn}, allowed[n]) :
                             n \in 1..Len(allowed)}
        dedup   == {sorted(Range(c)) : c \in found}
    IN  IF cfg.set_order = "asc" THEN SortTuples(dedup)
        ELSE Reverse(SortTuples(dedup))

RECURSIVE generate_path_chains_loop(_, _, _, _)
generate_path_chains_loop(cfg, g, vid, k) ==
    IF k > Len(logical_nodes(cfg))
    THEN [g EXCEPT !.num_vars = vid - 1]
    ELSE LET i      == logical_nodes(cfg)[k]
             chains == PathChains(cfg, i)
         IN  IF Len(chains) = 0
             THEN generate_path_chains_loop(cfg,
                     [g EXCEPT !.embeddable = FALSE,
                               !.reject_reasons = Append(@, <<"no_path_chain", i>>)],
                     vid, k + 1)
             ELSE generate_path_chains_loop(cfg,
                     [g EXCEPT !.valid_chains = @ @@ (i :> chains),
                               !.chain_var_map = AssignVars(@, i, Len(chains), vid)],
                     vid + Len(chains), k + 1)

generate_path_chains(cfg, g) == generate_path_chains_loop(cfg, g, 1, 1)

RECURSIVE apply_fixed_mapping_loop(_, _, _)
apply_fixed_mapping_loop(cfg, g, k) ==
    IF k > Len(cfg.fixed_mapping) THEN g
    ELSE LET i         == cfg.fixed_mapping[k][1]
             req_nodes == cfg.fixed_mapping[k][2]
         IN  IF i \notin DOMAIN g.valid_chains
             THEN apply_fixed_mapping_loop(cfg, g, k + 1)
             ELSE LET new_chains == SelectSeq(g.valid_chains[i],
                                       LAMBDA chain : req_nodes \subseteq Range(chain))
                      g2 == [g EXCEPT !.valid_chains[i] = new_chains]
                  IN  apply_fixed_mapping_loop(cfg,
                         IF Len(new_chains) = 0
                         THEN [g2 EXCEPT !.embeddable = FALSE,
                                         !.reject_reasons =
                                            Append(@, <<"all_removed", i>>)]
                         ELSE g2,
                         k + 1)

apply_fixed_mapping(cfg, g) == apply_fixed_mapping_loop(cfg, g, 1)

\* a faulty chain generator of the filtering variant that ignores the
\* required nodes
ConnectedChainsUnfiltered(cfg, i) ==
    LET allowed == allowed_sizes(cfg, i)
    IN  Flatten([n \in 1..Len(allowed) |->
           SelectSeq(combinations(physical_nodes(cfg), allowed[n]),
                     LAMBDA subset : is_connected(cfg.pe, Range(subset)))])

\* ---- cnf_generator_qubit_max.py: connected subsets holding the fixed nodes
ConnectedChains(cfg, i) ==
    LET allowed == allowed_sizes(cfg, i)
        required == required_nodes(cfg, i)
    IN  Flatten([n \in 1..Len(allowed) |->
           SelectSeq(combinations(physical_nodes(cfg), allowed[n]),
                     LAMBDA subset : /\ required \subseteq Range(subset)
                                     /\ is_connected(cfg.pe, Range(subset)))])

RECURSIVE generate_connected_chains_loop(_, _, _, _)
generate_connected_chains_loop(cfg, g, vid, k) ==
    IF k > Len(logical_nodes(cfg))
    THEN [g EXCEPT !.num_vars = vid - 1]
    ELSE LET i      == logical_nodes(cfg)[k]
             chains == ConnectedChains(cfg, i)
         IN  IF Len(chains) = 0
             THEN [g EXCEPT !.embeddable = FALSE,
                            !.reject_reasons = Append(@, <<"no_chain", i>>)]
             ELSE generate_connected_chains_loop(cfg,
                     [g EXCEPT !.valid_chains = @ @@ (i :> chains),
                               !.chain_var_map = AssignVars(@, i, Len(chains), vid)],
                     vid + Len(chains), k + 1)

generate_connected_chains(cfg, g) == generate_connected_chains_loop(cfg, g, 1, 1)

\* ------------------------------------------------------------------------
\* Clauses.  A clause is the list of its literals.
\* ------------------------------------------------------------------------
RECURSIVE Insert(_, _)
Insert(x, s) ==
    IF Len(s) = 0 THEN <<x>>
    ELSE IF x <= Head(s) THEN <<x>> \o s
    ELSE <<Head(s)>> \o Insert(x, Tail(s))

RECURSIVE sorted_list(_)
\* tuple(sorted(lits))
sorted_list(s) ==
    IF Len(s) = 0 THEN <<>> ELSE Insert(Head(s), sorted_list(Tail(s)))

\* cnf_generator.py add_clause: append unless the sorted literals are known
add_clause_dedup(g, lits) ==
    LET key == sorted_list(lits)
    IN  IF key \in g.clause_set THEN g
        ELSE [g EXCEPT !.clauses = Append(@, lits),
                       !.clause_set = @ \cup {key}]

\* cnf_generator_path.py / cnf_generator_qubit_max.py add_clause: append
add_clause(g, lits) == [g EXCEPT !.clauses = Append(@, lits)]

\* add_clause for every clause of cs in turn: a clause is appended unless
\* its key is already known or an earlier clause of cs has the same key
add_all_dedup(g, cs) ==
    LET keys  == [k \in 1..Len(cs) |-> sorted_list(cs[k])]
        fresh == SelectSeq([k \in 1..Len(cs) |-> k], LAMBDA k :
                    /\ keys[k] \notin g.clause_set
                    /\ \A j \in 1..(k - 1) : keys[j] # keys[k])
    IN  [g EXCEPT !.clauses = @ \o [m \in 1..Len(fresh) |-> cs[fresh[m]]],
                  !.clause_set = @ \cup Range(keys)]

add_all(g, cs) == [g EXCEPT !.clauses = @ \o cs]

\* the nodes of valid_chains in dict (insertion) order
chain_nodes(cfg, g) ==
    SelectSeq(logical_nodes(cfg), LAMBDA i : i \in DOMAIN g.valid_chains)

\* for i, chains in valid_chains.items(): the at-least-one clause, then one
\* clause per pair of combinations(range(len(chains)), 2)
exactly_one_clauses(cfg, g) ==
    LET nodes == chain_nodes(cfg, g)
        one(i) ==
            LET n     == Len(g.valid_chains[i])
                pairs == combinations([k \in 1..n |-> k - 1], 2)
            IN  << [k \in 1..n |-> g.chain_var_map[<<i, k - 1>>]] >> \o
                [m \in 1..Len(pairs) |->
                    << -g.chain_var_map[<<i, pairs[m][1]>>],
                       -g.chain_var_map[<<i, pairs[m][2]>> ] >>]
    IN  Flatten([k \in 1..Len(nodes) |-> one(nodes[k])])

\* the (idx_a, idx_b) pairs of chains of a and b whose pair of chains is in
\* `bad`, in loop order, as the clauses [-var(a, idx_a), -var(b, idx_b)]
pair_clauses(g, a, b, bad) ==
    LET na == Len(g.valid_chains[a])
        nb == Len(g.valid_chains[b])
        all == [k \in 1..(na * nb) |-> << ((k - 1) \div nb), ((k - 1) % nb) >>]
        hit == SelectSeq(all, LAMBDA x :
                  <<g.valid_chains[a][x[1] + 1], g.valid_chains[b][x[2] + 1]>> \in bad)
    IN  [k \in 1..Len(hit) |->
            << -g.chain_var_map[<<a, hit[k][1]>>],
               -g.chain_var_map[<<b, hit[k][2]>> ] >>]

\* a faulty overlap test that only sees identical chains; with it chains
\* that share a node may be chosen together
chains_overlap_identical(chain_a, chain_b) == chain_a = chain_b

\* a faulty overlap test that takes every two chains for overlapping; with
\* it no two logical nodes can be placed at all
chains_overlap_always(chain_a, chain_b) == TRUE

\* if set(chain_a) & set(chain_b)
chains_overlap(chain_a, chain_b) == Range(chain_a) \cap Range(chain_b) # {}

\* for a, b in combinations(logical_nodes, 2): one clause per overlapping pair
chain_exclusivity_clauses(cfg, g) ==
    LET pairs == combinations(logical_nodes(cfg), 2)
    IN  Flatten([k \in 1..Len(pairs) |->
           pair_clauses(g, pairs[k][1], pairs[k][2],
              {p \in Range(g.valid_chains[pairs[k][1]])
                       \X Range(g.valid_chains[pairs[k][2]]) :
                  chains_overlap(p[1], p[2])})])

\* a faulty adjacency test that takes every pair of chains as joined; with
\* it no edge-consistency clause is produced
chains_adjacent_always(pe, chain_i, chain_j) == TRUE

\* any(G_phys.has_edge(u, v) for u in chain_i for v in chain_j)
chains_adjacent(pe, chain_i, chain_j) ==
    \E u \in Range(chain_i), v \in Range(chain_j) : has_edge(pe, u, v)

\* for i, j in G_log.edges(): one clause per pair with no joining edge
edge_consistency_clauses(cfg, g) ==
    Flatten([k \in 1..Len(cfg.le) |->
       pair_clauses(g, cfg.le[k][1], cfg.le[k][2],
          {p \in Range(g.valid_chains[cfg.le[k][1]])
                   \X Range(g.valid_chains[cfg.le[k][2]]) :
              ~chains_adjacent(cfg.pe, p[1], p[2])})])

\* valid_chains[a] of a node without chains: KeyError
lookup_raises(cfg, g) ==
    \/ \E k \in 1..Len(combinations(logical_nodes(cfg), 2)) :
          \E a \in Range(combinations(logical_nodes(cfg), 2)[k]) :
             a \notin DOMAIN g.valid_chains
    \/ \E k \in 1..Len(cfg.le) :
          \E a \in Range(cfg.le[k]) : a \notin DOMAIN g.valid_chains

\* a faulty fixed-mapping encoder that emits no unit clause; the returned
\* chains then need not hold the required nodes
fixed_mapping_clauses_none(cfg, g) == <<>>

\* cnf_generator.py encode_fixed_mappings: a unit clause per chain that
\* lacks a required node
fixed_mapping_clauses(cfg, g) ==
    LET one(k) ==
            LET i        == cfg.fixed_mapping[k][1]
                required == cfg.fixed_mapping[k][2]
            IN  IF i \notin DOMAIN g.valid_chains THEN <<>>
                ELSE LET n   == Len(g.valid_chains[i])
                         hit == SelectSeq([m \in 1..n |-> m - 1], LAMBDA idx :
                                   ~(required \subseteq Range(g.valid_chains[i][idx + 1])))
                     IN  [m \in 1..Len(hit) |-> << -g.chain_var_map[<<i, hit[m]>>] >>]
    IN  Flatten([k \in 1..Len(cfg.fixed_mapping) |-> one(k)])

RECURSIVE product(_)
\* itertools.product(*lists)
product(lists) ==
    IF Len(lists) = 0 THEN << <<>> >>
    ELSE LET rest == product(Tail(lists))
             h    == Head(lists)
         IN  Flatten([a \in 1..Len(h) |->
                [b \in 1..Len(rest) |-> <<h[a]>> \o rest[b]]])

RECURSIVE sum(_)
sum(s) == IF Len(s) = 0 THEN 0 ELSE Head(s) + sum(Tail(s))

\* cnf_generator_qubit_max.py encode_max_total_qubits: one clause per
\* selection of one chain per node whose total size exceeds Q
max_total_qubits_clauses(cfg, g) ==
    IF IsNone(cfg.max_total_qubits) THEN <<>>
    ELSE LET Q     == Val(cfg.max_total_qubits)
             nodes == logical_nodes(cfg)
             idxs  == [k \in 1..Len(nodes) |->
                         [m \in 1..Len(g.valid_chains[nodes[k]]) |-> m - 1]]
             sels  == product(idxs)
             total(sel) == sum([k \in 1..Len(nodes) |->
                                  Len(g.valid_chains[nodes[k]][sel[k] + 1])])
             over  == SelectSeq(sels, LAMBDA sel : total(sel) > Q)
         IN  [m \in 1..Len(over) |->
                [k \in 1..Len(nodes) |-> -g.chain_var_map[<<nodes[k], over[m][k]>>]]]

\* ------------------------------------------------------------------------
\* The persisted DIMACS file: the header line "p cnf <num_vars>
\* <num_clauses>" as the pair of its two counts, and the clause lines, each
\* the list of its tokens.  exists = FALSE: no file at dimacs_path.
\* ------------------------------------------------------------------------
NoFile == [exists |-> FALSE, header |-> <<0, 0>>, lines |-> <<>>]

\* a faulty line format that leaves out the closing 0
format_clause_unterminated(c) == c

\* ' '.join(str(l) for l in c) + ' 0'
format_clause(c) == c \o <<0>>

\* the clause of a line as the DIMACS reader takes it: the tokens before
\* the closing 0
parse_line(line) == SubSeq(line, 1, Len(line) - 1)

file_clauses(f) == [k \in 1..Len(f.lines) |-> parse_line(f.lines[k])]

\* cnf_generator.py / cnf_generator_qubit_max.py write_dimacs: header from
\* num_vars and len(clauses), then every clause of memory
write_dimacs(g) ==
    [exists |-> TRUE,
     header |-> <<g.num_vars, Len(g.clauses)>>,
     lines  |-> [k \in 1..Len(g.clauses) |-> format_clause(g.clauses[k])]]

\* cnf_generator_path.py write_dimacs: encodes exactly-one, exclusivity and
\* edge consistency from valid_chains, writing each clause to the file and
\* appending it to memory; the header is patched with the count of the
\* clauses written.  Returns the generator and the file.
path_write_dimacs(cfg, g, f) ==
    IF ~g.embeddable THEN [g |-> g, f |-> f, ret |-> 0]
    ELSE LET written == exactly_one_clauses(cfg, g)
                        \o chain_exclusivity_clauses(cfg, g)
                        \o edge_consistency_clauses(cfg, g)
         IN  [g   |-> add_all(g, written),
              f   |-> [exists |-> TRUE,
                       header |-> <<g.num_vars, Len(written)>>,
                       lines  |-> [k \in 1..Len(written) |->
                                     format_clause(written[k])]],
              ret |-> Len(written)]

\* ------------------------------------------------------------------------
\* generate() of the three variants: the generator after the call, and the
\* file at dimacs_path after it
\* ------------------------------------------------------------------------
\* cnf_generator.py generate(): chains, fixed-mapping unit clauses, exactly
\* one, exclusivity, edge consistency, all through the de-duplicating
\* add_clause.  It takes no path: the file is then written by
\* write_dimacs(dimacs_path), the call this variant needs before a solve.
subset_generate(cfg, g0, f) ==
    IF ~g0.embeddable THEN [g |-> g0, f |-> f]
    ELSE LET g1 == generate_chain_variables(cfg, g0)
             g2 == add_all_dedup(g1, fixed_mapping_clauses(cfg, g1))
             g3 == add_all_dedup(g2, exactly_one_clauses(cfg, g2))
         IN  IF lookup_raises(cfg, g3)
             THEN [g |-> [g3 EXCEPT !.raised = TRUE], f |-> f]
             ELSE LET g4 == add_all_dedup(g3, chain_exclusivity_clauses(cfg, g3))
                      g5 == add_all_dedup(g4, edge_consistency_clauses(cfg, g4))
                  IN  [g |-> g5, f |-> write_dimacs(g5)]

\* cnf_generator_path.py generate(output_path)
path_generate(cfg, g0, f) ==
    LET g1 == generate_path_chains(cfg, g0)
        g2 == apply_fixed_mapping(cfg, g1)
    IN  IF ~g2.embeddable THEN [g |-> g2, f |-> f]
        ELSE LET w == path_write_dimacs(cfg, g2, f)
             IN  [g |-> w.g, f |-> w.f]

\* cnf_generator_qubit_max.py generate(output_path)
qubit_max_generate(cfg, g0, f) ==
    LET g1 == generate_connected_chains(cfg, g0)
    IN  IF ~g1.embeddable THEN [g |-> g1, f |-> f]
        ELSE LET g2 == add_all(g1, exactly_one_clauses(cfg, g1))
                 g3 == add_all(g2, chain_exclusivity_clauses(cfg, g2))
                 g4 == add_all(g3, edge_consistency_clauses(cfg, g3))
                 g5 == add_all(g4, max_total_qubits_clauses(cfg, g4))
             IN  [g |-> g5, f |-> write_dimacs(g5)]

generate(cfg, g0, f) ==
    CASE cfg.variant = "subset"    -> subset_generate(cfg, g0, f)
      [] cfg.variant = "path"      -> path_generate(cfg, g0, f)
      [] cfg.variant = "qubit_max" -> qubit_max_generate(cfg, g0, f)

\* ------------------------------------------------------------------------
\* Blocking
\* ------------------------------------------------------------------------
\* a faulty selection that takes every literal of a chain variable, the
\* false ones too
active_chain_vars_any_sign(g, model) ==
    SelectSeq(model, LAMBDA lit :
       \E p \in DOMAIN g.chain_var_map :
          g.chain_var_map[p] = lit \/ g.chain_var_map[p] = -lit)

\* [lit for lit in model if lit > 0 and lit in chain_var_map.values()]
active_chain_vars(g, model) ==
    SelectSeq(model, LAMBDA lit :
       lit > 0 /\ \E p \in DOMAIN g.chain_var_map : g.chain_var_map[p] = lit)

\* [-lit for lit in active_chain_vars]
blocking_clause(g, model) ==
    LET active == active_chain_vars(g, model)
    IN  [k \in 1..Len(active) |-> -active[k]]

\* a faulty append that adds the line and leaves the header's count as read
append_to_file_stale_header(f, clause) ==
    [f EXCEPT !.lines = Append(@, format_clause(clause))]

\* the in-place append of add_blocking_clause_from_model(model, dimacs_path):
\* read the lines, add one to the header's clause count, append the line
append_to_file(f, clause) ==
    [f EXCEPT !.header = <<@[1], @[2] + 1>>,
              !.lines  = Append(@, format_clause(clause))]

\* add_blocking_clause_from_model(model, dimacs_path) of the installed
\* variant; dimacs_path = FALSE stands for None (cnf_generator.py has no
\* such parameter).  Returns the generator, the file, the return value, and
\* whether the call raised instead of returning: open(dimacs_path, 'r+') of
\* a file that was never written raises after the clause went to memory.
add_blocking_clause_from_model(cfg, g, f, model, dimacs_path) ==
    LET clause == blocking_clause(g, model)
        opens  == dimacs_path /\ cfg.variant # "subset"
    IN  IF Len(clause) = 0
        THEN [g |-> g, f |-> f, ret |-> FALSE, raised |-> FALSE]
        ELSE [g      |-> IF cfg.variant = "subset" THEN add_clause_dedup(g, clause)
                         ELSE add_clause(g, clause),
              f      |-> IF opens /\ f.exists THEN append_to_file(f, clause) ELSE f,
              ret    |-> ~(opens /\ ~f.exists),
              raised |-> opens /\ ~f.exists]

\* gen.write_dimacs(dimacs_path) of the installed variant
rewrite_dimacs(cfg, g, f) ==
    IF cfg.variant = "path"
    THEN LET w == path_write_dimacs(cfg, g, f) IN [g |-> w.g, f |-> w.f]
    ELSE [g |-> g, f |-> write_dimacs(g)]

\* ------------------------------------------------------------------------
\* Satisfiability.  An assignment is the set of the variables it makes
\* true; a model is the list of one literal per variable, in variable order.
\* ------------------------------------------------------------------------
Abs(l) == IF l < 0 THEN -l ELSE l

lit_true(T, l) == IF l > 0 THEN l \in T ELSE -l \notin T

satisfies(T, clause) == \E k \in 1..Len(clause) : lit_true(T, clause[k])

max_var(clauses) ==
    LET vs == UNION {{Abs(clauses[k][m]) : m \in 1..Len(clauses[k])} :
                        k \in 1..Len(clauses)}
    IN  IF vs = {} THEN 0 ELSE CHOOSE v \in vs : \A w \in vs : w <= v

RECURSIVE extend_assignments(_, _, _, _)
\* the assignments of the variables 1..n that falsify no clause of cset,
\* grown one variable at a time; a clause is tested once its last variable
\* has a value
extend_assignments(cset, k, n, partial) ==
    IF k > n THEN partial
    ELSE LET due  == {c \in cset : /\ \A m \in 1..Len(c) : Abs(c[m]) <= k
                                   /\ \E m \in 1..Len(c) : Abs(c[m]) = k}
             cand == partial \cup {T \cup {k} : T \in partial}
         IN  extend_assignments(cset, k + 1, n,
                {T \in cand : \A c \in due : satisfies(T, c)})

\* every satisfying assignment of the clause list over the variables 1..n
all_models(clauses, n) ==
    IF \E k \in 1..Len(clauses) : Len(clauses[k]) = 0 THEN {}
    ELSE extend_assignments(Range(clauses), 1, n, {{}})

\* get_model(): one signed literal per variable
model_list(T, n) == [k \in 1..n |-> IF k \in T THEN k ELSE -k]

\* ------------------------------------------------------------------------
\* solver_interface.py
\* ------------------------------------------------------------------------
\* a faulty numbering that takes the auxiliary literals from the chain
\* variables' range
aux_lit_in_range(num_vars, idx) == idx + 1

\* aux_lit = cnf_gen.num_vars + idx + 1, idx the 0-based clause position
aux_lit(num_vars, idx) == num_vars + idx + 1

\* assumptions = [num_vars + idx + 1 for idx, _ in enumerate(clauses)]
assumptions_of(snapshot) ==
    [k \in 1..Len(snapshot.clauses) |-> aux_lit(snapshot.num_vars, k - 1)]

\* solver.add_clause([-aux_lit] + clause) for every clause of cnf_gen
wrapped_clauses(snapshot) ==
    [k \in 1..Len(snapshot.clauses) |->
        << -aux_lit(snapshot.num_vars, k - 1) >> \o snapshot.clauses[k]]

\* solver.solve(assumptions): the clauses with the assumed literals set --
\* a clause holding an assumed literal is satisfied, the negation of an
\* assumed literal is dropped -- then every model of the rest
models_under_assumptions(clauses, assumptions) ==
    LET A      == Range(assumptions)
        live   == SelectSeq(clauses, LAMBDA c : \A m \in 1..Len(c) : c[m] \notin A)
        cut    == [k \in 1..Len(live) |->
                     SelectSeq(live[k], LAMBDA l : -l \notin A)]
        n      == max_var(clauses)
        others == (1..n) \ A
        last   == IF others = {} THEN 0
                  ELSE CHOOSE v \in others : \A w \in others : w <= v
    IN  {[T |-> T \cup A, n |-> n] : T \in all_models(cut, last)}

\* the worker's verdicts: what _solve_process computes from its copy of
\* cnf_gen (the clauses of memory at p.start(), not the lines of the file)
worker_verdicts(snapshot) ==
    LET ms == models_under_assumptions(wrapped_clauses(snapshot),
                                       assumptions_of(snapshot))
    IN  IF ms = {} THEN {[status |-> FALSE, model |-> <<>>]}
        ELSE {[status |-> TRUE, model |-> model_list(m.T, m.n)] : m \in ms}

\* the dictionary the parent reads after join, turned into its result
read_result(return_dict) ==
    LET has(k) == k \in DOMAIN return_dict
        error  == IF has("error") THEN return_dict["error"] ELSE "None"
    IN  IF error # "None"
        THEN [status |-> "ERROR", model |-> <<>>, error |-> error]
        ELSE IF has("status") /\ return_dict["status"]
        THEN [status |-> "SAT", model |-> return_dict["model"], error |-> "None"]
        ELSE [status |-> "UNSAT", model |-> <<>>, error |-> "None"]

\* the result of the branch taken when p.is_alive() after join(timeout)
timeout_result == [status |-> "ERROR", model |-> <<>>, error |-> "Timeout expired"]

\* ------------------------------------------------------------------------
\* solver_interface_Cripto.solve_dimacs_file(dimacs_path, timeout_seconds,
\* num_threads): the adapter the runner imports.  It solves the persisted
\* file and answers with the result contract {SAT(model), UNSAT, TIMEOUT,
\* ERROR(detail)}.
\* ------------------------------------------------------------------------
cripto_results(cfg, f) ==
    LET n  == IF f.header[1] > max_var(file_clauses(f))
              THEN f.header[1] ELSE max_var(file_clauses(f))
        ms == all_models(file_clauses(f), n)
    IN  {[status |-> "ERROR", model |-> <<>>, error |-> "fault"]}
        \cup (IF IsNone(cfg.timeout_seconds) THEN {}
              ELSE {[status |-> "TIMEOUT", model |-> <<>>, error |-> "None"]})
        \cup (IF ~f.exists \/ cfg.timeout_seconds = {0} THEN {}
              ELSE IF ms = {}
              THEN {[status |-> "UNSAT", model |-> <<>>, error |-> "None"]}
              ELSE {[status |-> "SAT", model |-> model_list(T, n), error |-> "None"] :
                       T \in ms})

\* ------------------------------------------------------------------------
\* experiment_runner.py: decoding a model
\* ------------------------------------------------------------------------
\* rev = {vid: (i, idx) for (i, idx), vid in chain_var_map.items()}
rev(g, lit) == CHOOSE p \in DOMAIN g.chain_var_map : g.chain_var_map[p] = lit

\* gen.valid_chains[i][chain_idx] of a true chain variable whose index is
\* past the end of the node's list: IndexError
decode_raises(g, model) ==
    \E k \in 1..Len(active_chain_vars(g, model)) :
       LET e == rev(g, active_chain_vars(g, model)[k])
       IN  \/ e[1] \notin DOMAIN g.valid_chains
           \/ e[2] >= Len(g.valid_chains[e[1]])

\* solution_map: for every true chain variable, in model order,
\* solution_map[i] = list(valid_chains[i][chain_idx]); a later literal of
\* the same node overwrites an earlier one
decode(g, model) ==
    LET active == active_chain_vars(g, model)
        nodes  == {rev(g, active[k])[1] : k \in 1..Len(active)}
        last(i) == CHOOSE k \in 1..Len(active) :
                      /\ rev(g, active[k])[1] = i
                      /\ \A m \in (k + 1)..Len(active) : rev(g, active[m])[1] # i
    IN  [i \in nodes |-> g.valid_chains[i][rev(g, active[last(i)])[2] + 1]]

\* ------------------------------------------------------------------------
\* Bounds and inputs
\* ------------------------------------------------------------------------
\* the rounds of the enumeration loop a run is followed for
MaxRounds == 3

P2 == [pn |-> {0, 1}, pe |-> {{0, 1}}]

P3 == [pn |-> {0, 1, 2}, pe |-> {{0, 1}, {1, 2}}]

P4 == [pn |-> {0, 1, 2, 3}, pe |-> {{0, 1}, {1, 2}, {2, 3}}]

Star == [pn |-> {0, 1, 2, 3}, pe |-> {{0, 1}, {0, 2}, {0, 3}}]

K1 == [ln |-> {1}, le |-> <<>>]

K2 == [ln |-> {1, 2}, le |-> << <<1, 2>> >>]

Triangle == [ln |-> {1, 2, 3}, le |-> << <<1, 2>>, <<1, 3>>, <<2, 3>> >>]

Scenario(phys, log, dflt, per, fixed, maxq) ==
    [pn |-> phys.pn, pe |-> phys.pe, ln |-> log.ln, le |-> log.le,
     default_allowed_expansions |-> dflt, per_node |-> per,
     fixed_mapping |-> fixed, max_total_qubits |-> maxq]

Scenarios ==
    { Scenario(P4, Triangle, <<1, 2>>, <<>>, <<>>, {}),
      Scenario(P2, K2, <<1>>, <<>>, <<>>, {}),
      Scenario(P3, K2, <<1>>, <<>>, <<>>, {}),
      Scenario(P3, K2, <<1>>, <<>>, << <<1, {0}>> >>, {}),
      Scenario(P3, K2, <<1, 2>>, <<>>, << <<1, {1}>> >>, {}),
      Scenario(P3, K2, <<1, 2>>, <<>>, << <<1, {0, 2}>> >>, {}),
      Scenario(P3, K2, <<1>>, (1 :> <<2>>), <<>>, {}),
      Scenario(P3, K2, <<1>>, (2 :> <<4>>), <<>>, {}),
      Scenario(P3, K2, <<2, 1>>, <<>>, <<>>, {2}),
      Scenario(P3, K2, <<1, 2>>, <<>>, <<>>, {1}),
      Scenario(P3, K1, <<2>>, <<>>, <<>>, {}),
      Scenario(Star, K1, <<4>>, <<>>, <<>>, {}),
      Scenario(Star, K2, <<3>>, (2 :> <<1>>), << <<2, {3}>> >>, {}) }

Variants == {"subset", "path", "qubit_max"}

Solvers == {"cripto", "glucose"}

Timeouts == {{}, {0}, {5}}

Attempts == {{}, {0}, {1}, {2}}

Configs ==
    {[pn |-> sc.pn, pe |-> sc.pe, ln |-> sc.ln, le |-> sc.le,
      default_allowed_expansions |-> sc.default_allowed_expansions,
      per_node |-> sc.per_node, fixed_mapping |-> sc.fixed_mapping,
      max_total_qubits |-> sc.max_total_qubits,
      variant |-> x[1], set_order |-> x[2], solver |-> x[3],
      timeout_seconds |-> x[4], max_attempts |-> x[5]] :
        sc \in Scenarios,
        x \in {y \in Variants \X {"asc", "desc"} \X Solvers \X Timeouts \X Attempts :
                 y[2] = "desc" => y[1] = "path"}}

\* ------------------------------------------------------------------------
\* State
\* ------------------------------------------------------------------------
VARIABLES
    cfg,            \* the inputs of the run
    gen,            \* the CNFGenerator object
    file,           \* the DIMACS file at dimacs_path
    pc,             \* position of run_experiment
    tentativo,      \* attempt counter of the loop
    found_any,
    stopped_early,
    res,            \* the result of the last solve_dimacs_file call
    emitted,        \* the solution_map of every write_experiment_output(status="SAT")
    final_status,   \* status of the final write_experiment_output, "none" if none
    solver_calls,   \* number of solve_dimacs_file calls made
    worker,         \* the solver process of solver_interface.py
    return_dict,    \* the manager dictionary of the call in flight
    store_ops,      \* calls made on the generator's store by a direct client
    exit_message    \* the message printed when the loop is left, "none" before

vars == <<cfg, gen, file, pc, tentativo, found_any, stopped_early, res, emitted,
          final_status, solver_calls, worker, return_dict, store_ops,
          exit_message>>

NoResult == [status |-> "none", model |-> <<>>, error |-> "None"]

\* alive: the solver processes started and not yet ended, each named by the
\* number of the call that started it
NoWorker ==
    [pc |-> "none", snapshot |-> [clauses |-> <<>>, num_vars |-> 0], alive |-> {}]

\* a faulty timeout branch that returns without ending the worker
terminate_skipped(alive, id) == alive

\* p.terminate(); p.join(): the process of the call is ended
terminate(alive, id) == alive \ {id}

Init ==
    /\ cfg \in Configs
    /\ gen = NewGenerator
    /\ file = NoFile
    /\ pc = "init"
    /\ tentativo = 1
    /\ found_any = FALSE
    /\ stopped_early = FALSE
    /\ res = NoResult
    /\ emitted = <<>>
    /\ final_status = "none"
    /\ solver_calls = 0
    /\ worker = NoWorker
    /\ return_dict = <<>>
    /\ store_ops = 0
    /\ exit_message = "none"

\* run_experiment up to the loop: the generator is built (embeddable is
\* True after __init__, so the early return is not taken) and generate()
\* runs; an exception raised in it ends the run
Generate ==
    /\ pc = "init"
    /\ LET r == generate(cfg, gen, file)
       IN  /\ gen' = r.g
           /\ file' = r.f
           /\ pc' = IF r.g.raised THEN "crashed" ELSE "loop"
    /\ UNCHANGED <<store_ops, exit_message>>
    /\ UNCHANGED <<cfg, tentativo, found_any, stopped_early, res, emitted,
                   final_status, solver_calls, worker, return_dict>>

\* a faulty cap test that lets one more attempt through
cap_reached_late == ~IsNone(cfg.max_attempts) /\ tentativo > Val(cfg.max_attempts) + 1

\* if max_attempts is not None and tentativo > max_attempts
cap_reached == ~IsNone(cfg.max_attempts) /\ tentativo > Val(cfg.max_attempts)

StopEarly ==
    /\ pc = "loop"
    /\ cap_reached
    /\ stopped_early' = TRUE
    /\ pc' = "final"
    /\ exit_message' = "Stop volontario"
    /\ UNCHANGED store_ops
    /\ UNCHANGED <<cfg, gen, file, tentativo, found_any, res, emitted,
                   final_status, solver_calls, worker, return_dict>>

\* res = solve_dimacs_file(dimacs_path, timeout_seconds=timeout, num_threads=...)
SolveCripto ==
    /\ pc = "loop"
    /\ ~cap_reached
    /\ tentativo <= MaxRounds
    /\ cfg.solver = "cripto"
    /\ \E r \in cripto_results(cfg, file) : res' = r
    /\ solver_calls' = solver_calls + 1
    /\ pc' = "result"
    /\ UNCHANGED <<store_ops, exit_message>>
    /\ UNCHANGED <<cfg, gen, file, tentativo, found_any, stopped_early, emitted,
                   final_status, worker, return_dict>>

\* a faulty hand-over in which the worker wraps the clauses of the
\* controller's own generator in place
process_args_shared(g) ==
    [g EXCEPT !.clauses =
        wrapped_clauses([clauses |-> g.clauses, num_vars |-> g.num_vars])]

\* mp.Process(target=_solve_process, args=(dimacs_path, cnf_gen, ...)) and
\* p.start(): the worker is handed its own copy of cnf_gen, and builds
\* [-aux_lit] + clause as new lists; the controller's generator is as before
process_args(g) == g

\* res = solve_dimacs_file(dimacs_path, timeout_seconds=timeout, cnf_gen=gen)
\* up to p.start(): the worker gets its copy of cnf_gen
StartWorker ==
    /\ pc = "loop"
    /\ ~cap_reached
    /\ tentativo <= MaxRounds
    /\ cfg.solver = "glucose"
    /\ gen' = process_args(gen)
    /\ worker' = [pc |-> "running",
                  snapshot |-> [clauses |-> gen.clauses, num_vars |-> gen.num_vars],
                  alive |-> worker.alive \cup {solver_calls + 1}]
    /\ return_dict' = <<>>
    /\ solver_calls' = solver_calls + 1
    /\ pc' = "join"
    /\ UNCHANGED <<store_ops, exit_message>>
    /\ UNCHANGED <<cfg, file, tentativo, found_any, stopped_early, res,
                   emitted, final_status>>

\* a deadline of 0 ends join() before the worker has done anything
worker_can_run == worker.pc = "running" /\ cfg.timeout_seconds # {0}

\* _solve_process, try branch: the file is read (a missing file raises and
\* is caught), the clauses of cnf_gen are solved, the four entries written
WorkerSolves ==
    /\ worker_can_run
    /\ IF ~file.exists
       THEN return_dict' = [k \in {"status", "model", "core", "error"} |->
                               CASE k = "status" -> FALSE
                                 [] k = "model"  -> <<>>
                                 [] k = "core"   -> <<>>
                                 [] k = "error"  -> "traceback"]
       ELSE \E v \in worker_verdicts(worker.snapshot) :
               return_dict' = [k \in {"status", "model", "core", "error"} |->
                                  CASE k = "status" -> v.status
                                    [] k = "model"  -> v.model
                                    [] k = "core"   -> <<>>
                                    [] k = "error"  -> "None"]
    /\ worker' = [worker EXCEPT !.pc = "exited", !.alive = @ \ {solver_calls}]
    /\ UNCHANGED <<store_ops, exit_message>>
    /\ UNCHANGED <<cfg, gen, file, pc, tentativo, found_any, stopped_early, res,
                   emitted, final_status, solver_calls>>

\* _solve_process, except branch: a fault raised inside the try
WorkerRaises ==
    /\ worker_can_run
    /\ return_dict' = [k \in {"status", "model", "core", "error"} |->
                          CASE k = "status" -> FALSE
                            [] k = "model"  -> <<>>
                            [] k = "core"   -> <<>>
                            [] k = "error"  -> "traceback"]
    /\ worker' = [worker EXCEPT !.pc = "exited", !.alive = @ \ {solver_calls}]
    /\ UNCHANGED <<store_ops, exit_message>>
    /\ UNCHANGED <<cfg, gen, file, pc, tentativo, found_any, stopped_early, res,
                   emitted, final_status, solver_calls>>

\* the worker process ends without reaching a write (killed, or a fault
\* that is no Exception)
WorkerDies ==
    /\ worker_can_run
    /\ worker' = [worker EXCEPT !.pc = "exited", !.alive = @ \ {solver_calls}]
    /\ UNCHANGED <<store_ops, exit_message>>
    /\ UNCHANGED <<cfg, gen, file, pc, tentativo, found_any, stopped_early, res,
                   emitted, final_status, solver_calls, return_dict>>

\* p.join(timeout) returns with the worker ended: the dictionary is read
JoinReturns ==
    /\ pc = "join"
    /\ worker.pc = "exited"
    /\ res' = read_result(return_dict)
    /\ worker' = [NoWorker EXCEPT !.alive = worker.alive]
    /\ pc' = "result"
    /\ UNCHANGED <<store_ops, exit_message>>
    /\ UNCHANGED <<cfg, gen, file, tentativo, found_any, stopped_early, emitted,
                   final_status, solver_calls, return_dict>>

\* p.join(timeout) returns with the worker alive: terminate, join, return
Deadline ==
    /\ pc = "join"
    /\ worker.pc = "running"
    /\ ~IsNone(cfg.timeout_seconds)
    /\ res' = timeout_result
    /\ worker' = [NoWorker EXCEPT !.alive = terminate(worker.alive, solver_calls)]
    /\ pc' = "result"
    /\ UNCHANGED <<store_ops, exit_message>>
    /\ UNCHANGED <<cfg, gen, file, tentativo, found_any, stopped_early, emitted,
                   final_status, solver_calls, return_dict>>

\* if res.get("status") != "SAT" or not res.get("model"): break
Break ==
    /\ pc = "result"
    /\ (res.status # "SAT" \/ Len(res.model) = 0)
    /\ pc' = "final"
    /\ exit_message' = "Nessun'altra soluzione SAT (UNSAT o timeout)"
    /\ UNCHANGED store_ops
    /\ UNCHANGED <<cfg, gen, file, tentativo, found_any, stopped_early, res,
                   emitted, final_status, solver_calls, worker, return_dict>>

\* the rest of the loop body: decode, write the SAT output, block, rewrite
\* the file, count the attempt
Accept ==
    /\ pc = "result"
    /\ res.status = "SAT" /\ Len(res.model) # 0
    /\ found_any' = TRUE
    /\ IF decode_raises(gen, res.model)
       THEN /\ pc' = "crashed"
            /\ UNCHANGED <<gen, file, emitted, tentativo>>
       ELSE LET b == add_blocking_clause_from_model(cfg, gen, file, res.model, FALSE)
                w == rewrite_dimacs(cfg, b.g, b.f)
            IN  /\ emitted' = Append(emitted, decode(gen, res.model))
                /\ gen' = w.g
                /\ file' = w.f
                /\ tentativo' = tentativo + 1
                /\ pc' = "loop"
    /\ UNCHANGED <<store_ops, exit_message>>
    /\ UNCHANGED <<cfg, stopped_early, res, final_status, solver_calls, worker,
                   return_dict>>

\* after the loop: if not found_any and not stopped_early, the output with
\* status="UNSAT" is written
Finish ==
    /\ pc = "final"
    /\ final_status' = IF ~found_any /\ ~stopped_early THEN "UNSAT" ELSE "none"
    /\ pc' = "done"
    /\ UNCHANGED <<store_ops, exit_message>>
    /\ UNCHANGED <<cfg, gen, file, tentativo, found_any, stopped_early, res,
                   emitted, solver_calls, worker, return_dict>>

Next ==
    \/ Generate
    \/ StopEarly
    \/ SolveCripto
    \/ StartWorker
    \/ WorkerSolves
    \/ WorkerRaises
    \/ WorkerDies
    \/ JoinReturns
    \/ Deadline
    \/ Break
    \/ Accept
    \/ Finish

Spec == Init /\ [][Next]_vars

\* ------------------------------------------------------------------------
\* The generator's store driven directly: after generate(), a client calls
\* write_dimacs(path), add_blocking_clause_from_model(model) and
\* add_blocking_clause_from_model(model, dimacs_path) in any order, handing
\* over models of the formula it has at hand.
\* ------------------------------------------------------------------------
\* the store calls a client run is followed for
MaxStoreOps == 2

\* the models a client can hand over: those of the persisted file; when no
\* file was written, the assignments that make one variable true; and the
\* assignment that makes no variable true, the model without an active
\* chain variable that add_blocking_clause_from_model tests for
store_models ==
    LET cs == file_clauses(file)
        n  == IF gen.num_vars > max_var(cs) THEN gen.num_vars ELSE max_var(cs)
    IN  (IF file.exists THEN {model_list(T, n) : T \in all_models(cs, n)}
         ELSE {model_list({v}, n) : v \in 1..n})
           \cup {model_list({}, n)}

StoreInit ==
    /\ Init
    /\ cfg.solver = "cripto"
    /\ IsNone(cfg.timeout_seconds)
    /\ IsNone(cfg.max_attempts)

\* gen.write_dimacs(dimacs_path)
StoreWrite ==
    /\ pc = "loop"
    /\ store_ops < MaxStoreOps
    /\ LET w == rewrite_dimacs(cfg, gen, file)
       IN  gen' = w.g /\ file' = w.f
    /\ store_ops' = store_ops + 1
    /\ UNCHANGED <<cfg, pc, tentativo, found_any, stopped_early, res, emitted,
                   final_status, solver_calls, worker, return_dict, exit_message>>

\* gen.add_blocking_clause_from_model(model): memory only
StoreBlock ==
    /\ pc = "loop"
    /\ store_ops < MaxStoreOps
    /\ \E model \in store_models :
          LET b == add_blocking_clause_from_model(cfg, gen, file, model, FALSE)
          IN  gen' = b.g /\ file' = b.f
    /\ store_ops' = store_ops + 1
    /\ UNCHANGED <<cfg, pc, tentativo, found_any, stopped_early, res, emitted,
                   final_status, solver_calls, worker, return_dict, exit_message>>

\* gen.add_blocking_clause_from_model(model, dimacs_path) of the path and
\* qubit-max variants; open(dimacs_path, 'r+') of a file that was never
\* written raises after the clause went to memory
StoreAppend ==
    /\ pc = "loop"
    /\ store_ops < MaxStoreOps
    /\ cfg.variant # "subset"
    /\ \E model \in store_models :
          LET b == add_blocking_clause_from_model(cfg, gen, file, model, TRUE)
          IN  /\ gen' = b.g
              /\ file' = b.f
              /\ pc' = IF b.raised THEN "crashed" ELSE pc
    /\ store_ops' = store_ops + 1
    /\ UNCHANGED <<cfg, tentativo, found_any, stopped_early, res, emitted,
                   final_status, solver_calls, worker, return_dict, exit_message>>

StoreNext ==
    \/ Generate
    \/ StoreWrite
    \/ StoreBlock
    \/ StoreAppend

StoreSpec == StoreInit /\ [][StoreNext]_vars

\* ========================================================================
\* Properties
\* ========================================================================
\* two chains share no physical node
Disjoint(c, d) == \A x \in 1..Len(c) : \A y \in 1..Len(d) : c[x] # d[y]

\* some physical edge joins the two chains
Joined(c, d) ==
    \E x \in 1..Len(c) : \E y \in 1..Len(d) : c[x] # d[y] /\ {c[x], d[y]} \in cfg.pe

\* e is a minor embedding of the logical graph: every logical node has a
\* chain, distinct nodes have disjoint chains, every logical edge is realized
IsEmbedding(e) ==
    /\ \A a \in DOMAIN e : \A b \in DOMAIN e : a # b => Disjoint(e[a], e[b])
    /\ \A k \in 1..Len(cfg.le) :
          /\ cfg.le[k][1] \in DOMAIN e
          /\ cfg.le[k][2] \in DOMAIN e
          /\ Joined(e[cfg.le[k][1]], e[cfg.le[k][2]])

\* C1: every embedding the loop decodes has pairwise disjoint chains and
\* realizes every logical edge by a physical edge between the two chains,
\* whichever generator produced the clauses.
C1_DecodedEmbeddingsAreValid ==
    \A k \in 1..Len(emitted) : IsEmbedding(emitted[k])

\* C1 witness: the path variant has emitted an embedding of a graph with an
\* edge in which some chain has two nodes
C1_Witness ==
    /\ cfg.variant = "path"
    /\ Len(cfg.le) > 0
    /\ \E k \in 1..Len(emitted) : \E i \in DOMAIN emitted[k] : Len(emitted[k][i]) = 2

\* C2: every accepted embedding differs from every embedding accepted
\* before it; once E is blocked no later solve yields E again.
C2_AcceptedEmbeddingsDistinct ==
    \A j \in 1..Len(emitted) : \A k \in 1..Len(emitted) :
       j # k => emitted[j] # emitted[k]

\* the assignments of one candidate chain per logical node that meet the
\* base constraints of the installed variant: disjoint chains, realized
\* edges, the fixed mapping, and in the qubit-max variant the qubit budget
ValidAssignments ==
    LET cand == UNION {Range(gen.valid_chains[i]) : i \in DOMAIN gen.valid_chains}
        size(e) == sum([k \in 1..Len(logical_nodes(cfg)) |->
                          Len(e[logical_nodes(cfg)[k]])])
    IN  {e \in [cfg.ln -> cand] :
           /\ \A i \in cfg.ln :
                 /\ i \in DOMAIN gen.valid_chains
                 /\ \E m \in 1..Len(gen.valid_chains[i]) : gen.valid_chains[i][m] = e[i]
           /\ IsEmbedding(e)
           /\ \A k \in 1..Len(cfg.fixed_mapping) :
                 cfg.fixed_mapping[k][1] \in cfg.ln =>
                    cfg.fixed_mapping[k][2] \subseteq Range(e[cfg.fixed_mapping[k][1]])
           /\ (cfg.variant = "qubit_max" /\ ~IsNone(cfg.max_total_qubits))
                 => size(e) <= Val(cfg.max_total_qubits)}

\* C3: when the loop ends on an UNSAT result after at least one solution,
\* the emitted embeddings are exactly the valid assignments.
C3_ExhaustionIsComplete ==
    (pc \in {"final", "done"} /\ res.status = "UNSAT" /\ found_any)
       => Range(emitted) = ValidAssignments

\* the instance of C4: logical triangle, physical path 0-1-2-3, sizes {1,2},
\* no fixed mapping, no cardinality bound
IsTriangleOnP4 ==
    /\ cfg.pn = P4.pn /\ cfg.pe = P4.pe
    /\ cfg.ln = Triangle.ln /\ cfg.le = Triangle.le
    /\ Range(cfg.default_allowed_expansions) = {1, 2}
    /\ DOMAIN cfg.per_node = {}
    /\ Len(cfg.fixed_mapping) = 0
    /\ IsNone(cfg.max_total_qubits)

\* C4 as stated: on the triangle / P4 instance the finished run has found a
\* solution in which some logical node uses a 2-node chain.
C4_TriangleHasTwoNodeChainSolution ==
    (IsTriangleOnP4 /\ pc = "done" /\ IsNone(cfg.max_attempts))
       => \E k \in 1..Len(emitted) : \E i \in DOMAIN emitted[k] :
             Len(emitted[k][i]) = 2

\* C4 amended: on the triangle / P4 instance no solve returns SAT and no
\* embedding is emitted; a run that the attempt cap does not stop ends after
\* its first solver call with zero solutions.
C4_TriangleOnP4HasNoEmbedding ==
    IsTriangleOnP4 =>
       /\ res.status # "SAT"
       /\ Len(emitted) = 0
       /\ ~found_any
       /\ solver_calls <= 1
       /\ (pc \in {"final", "done"} /\ ~stopped_early) => solver_calls = 1
       /\ pc # "crashed"

\* C4 witness: the triangle / P4 run has ended on an UNSAT verdict
C4_Witness ==
    IsTriangleOnP4 /\ pc = "done" /\ res.status = "UNSAT" /\ final_status = "UNSAT"

\* C5: when the worker is still running at the deadline (always so with a
\* deadline of 0), solve_dimacs_file returns status TIMEOUT, a status other
\* than the one of internal faults, never SAT or UNSAT.
C5_DeadlineGivesTimeoutStatus ==
    (cfg.solver = "glucose" /\ pc = "result"
        /\ (cfg.timeout_seconds = {0} \/ res.error = "Timeout expired"))
       => res.status = "TIMEOUT"

\* C6: when the worker produced no verdict -- it raised, or it ended with
\* no entry written to the result dictionary -- solve_dimacs_file returns
\* ERROR with a diagnostic, never UNSAT or SAT.
C6_NoVerdictGivesError ==
    (cfg.solver = "glucose" /\ pc = "result"
        /\ (DOMAIN return_dict = {} \/ return_dict["error"] # "None"))
       => (res.status = "ERROR" /\ res.error # "None")

\* C7: a run that ends with zero solutions records status UNSAT only if the
\* solver returned UNSAT; a timeout or solver error is never recorded as
\* UNSAT.
C7_UnsatRecordedOnlyOnUnsat ==
    (pc = "done" /\ final_status = "UNSAT") => res.status = "UNSAT"

\* S induces a connected subgraph of the physical graph: every split of S
\* in two parts is crossed by an edge
Connected(S) ==
    /\ S # {}
    /\ \A A \in SUBSET S :
          (A # {} /\ A # S) =>
             \E x \in A : \E y \in S \ A : {x, y} \in cfg.pe

\* the nodes of S can be lined up as a simple path of the physical graph
PathShaped(S) ==
    \E p \in [1..Cardinality(S) -> S] :
       /\ \A a \in 1..Cardinality(S) : \A b \in 1..Cardinality(S) :
             a # b => p[a] # p[b]
       /\ \A a \in 1..(Cardinality(S) - 1) : {p[a], p[a + 1]} \in cfg.pe

\* the sizes logical node i may use, and the physical nodes it must hold
PermittedSizes(i) ==
    IF i \in DOMAIN cfg.per_node THEN Range(cfg.per_node[i])
    ELSE Range(cfg.default_allowed_expansions)

RequiredOf(i) ==
    UNION {cfg.fixed_mapping[k][2] :
              k \in {m \in 1..Len(cfg.fixed_mapping) : cfg.fixed_mapping[m][1] = i}}

\* logical node i has a chain that its size and fixed-mapping constraints
\* admit (a path in the path variant, a connected set otherwise)
HasAdmissibleChain(i) ==
    \E S \in SUBSET cfg.pn :
       /\ Cardinality(S) \in PermittedSizes(i)
       /\ RequiredOf(i) \subseteq S
       /\ IF cfg.variant = "path" THEN PathShaped(S) ELSE Connected(S)

\* C8: if some logical node has no admissible chain, the run makes no
\* solver call and does not end reporting UNSAT.
C8_InfeasibleRunMakesNoSolverCall ==
    (pc # "init" /\ \E i \in cfg.ln : ~HasAdmissibleChain(i))
       => (solver_calls = 0 /\ final_status # "UNSAT")

\* the number of candidate chains held in valid_chains
CandidateCount ==
    Cardinality(UNION {{<<i, m>> : m \in 1..Len(gen.valid_chains[i])} :
                          i \in DOMAIN gen.valid_chains})

\* C9: after generation, chain_var_map is injective, its values are
\* exactly 1..num_vars, and num_vars is the number of candidate chains.
C9_VariableIdsDense ==
    pc # "init" =>
       /\ \A p \in DOMAIN gen.chain_var_map : \A q \in DOMAIN gen.chain_var_map :
             p # q => gen.chain_var_map[p] # gen.chain_var_map[q]
       /\ {gen.chain_var_map[p] : p \in DOMAIN gen.chain_var_map} = 1..gen.num_vars
       /\ gen.num_vars = CandidateCount

\* chain c of logical node i is non-empty, duplicate-free, connected and of
\* a permitted size
WellFormedChain(i, c) ==
    /\ Len(c) > 0
    /\ \A a \in 1..Len(c) : \A b \in 1..Len(c) : a # b => c[a] # c[b]
    /\ Connected(Range(c))
    /\ Len(c) \in PermittedSizes(i)

\* C10 as stated: every stored chain with a variable id is well formed and
\* contains every node its logical node's fixed_mapping entry requires.
C10_StoredChainsHoldFixedNodes ==
    pc # "init" =>
       \A i \in DOMAIN gen.valid_chains : \A m \in 1..Len(gen.valid_chains[i]) :
          <<i, m - 1>> \in DOMAIN gen.chain_var_map =>
             /\ WellFormedChain(i, gen.valid_chains[i][m])
             /\ RequiredOf(i) \subseteq Range(gen.valid_chains[i][m])

\* C10 amended: every stored chain with a variable id is well formed; it
\* contains the required nodes in the path and qubit-max variants, and in
\* the subset variant a stored chain that lacks one is forbidden by the
\* unit clause on its variable.
C10_StoredChainsWellFormed ==
    pc # "init" =>
       \A i \in DOMAIN gen.valid_chains : \A m \in 1..Len(gen.valid_chains[i]) :
          <<i, m - 1>> \in DOMAIN gen.chain_var_map =>
             /\ WellFormedChain(i, gen.valid_chains[i][m])
             /\ \/ RequiredOf(i) \subseteq Range(gen.valid_chains[i][m])
                \/ /\ cfg.variant = "subset"
                   /\ \E k \in 1..Len(gen.clauses) :
                         gen.clauses[k] = << -gen.chain_var_map[<<i, m - 1>>] >>

\* C10 witness: the subset variant stores a chain that lacks a required
\* node, next to a two-node chain that holds it
C10_Witness ==
    /\ pc = "loop"
    /\ cfg.variant = "subset"
    /\ \E i \in DOMAIN gen.valid_chains :
          /\ RequiredOf(i) # {}
          /\ \E m \in 1..Len(gen.valid_chains[i]) :
                ~(RequiredOf(i) \subseteq Range(gen.valid_chains[i][m]))
          /\ \E m \in 1..Len(gen.valid_chains[i]) :
                /\ Len(gen.valid_chains[i][m]) = 2
                /\ RequiredOf(i) \subseteq Range(gen.valid_chains[i][m])

\* C11: in every embedding the loop returns, under every generator variant,
\* the chain of a logical node holds every physical node that fixed_mapping
\* requires for it.
C11_ReturnedChainsHoldFixedNodes ==
    \A k \in 1..Len(emitted) : \A i \in DOMAIN emitted[k] :
       RequiredOf(i) \subseteq Range(emitted[k][i])

\* C11 witness: an embedding was returned for an instance whose fixed
\* mapping rules out some chain of a permitted size for one of its nodes
C11_Witness ==
    /\ Len(emitted) > 0
    /\ \E i \in DOMAIN emitted[1] :
          /\ RequiredOf(i) # {}
          /\ \E x \in cfg.pn : x \notin RequiredOf(i) /\ 1 \in PermittedSizes(i)

\* the sum of the chain sizes of embedding e
TotalQubits(e) ==
    sum([k \in 1..Len(logical_nodes(cfg)) |->
            IF logical_nodes(cfg)[k] \in DOMAIN e
            THEN Len(e[logical_nodes(cfg)[k]]) ELSE 0])

\* the least sum of chain sizes over the choices of one candidate chain per
\* logical node, 0 if some node has no candidate
SmallestTotal ==
    sum([k \in 1..Len(logical_nodes(cfg)) |->
            LET i == logical_nodes(cfg)[k]
            IN  IF i \in DOMAIN gen.valid_chains /\ Len(gen.valid_chains[i]) > 0
                THEN Min({Len(gen.valid_chains[i][m]) :
                             m \in 1..Len(gen.valid_chains[i])})
                ELSE 0])

\* C12: with max_total_qubits = Q, whichever generator variant is used, no
\* returned embedding has a sum of chain sizes above Q, and when Q is below
\* the sum of the smallest chain sizes the run returns no embedding.
C12_QubitBudgetRespected ==
    ~IsNone(cfg.max_total_qubits) =>
       /\ \A k \in 1..Len(emitted) :
             TotalQubits(emitted[k]) <= Val(cfg.max_total_qubits)
       /\ (pc # "init" /\ Val(cfg.max_total_qubits) < SmallestTotal)
             => Len(emitted) = 0

\* the clauses the path variant's write_dimacs puts in the file
PathBaseCount ==
    Len(exactly_one_clauses(cfg, gen)) + Len(chain_exclusivity_clauses(cfg, gen))
       + Len(edge_consistency_clauses(cfg, gen))

\* C13: after any sequence of full writes and incremental appends the
\* file's header is "p cnf <num_vars> <num_clauses>" with <num_clauses> the
\* number of clause lines present, and every clause line ends with the 0
\* sentinel (and holds no other 0).
C13_HeaderCountsClauseLines ==
    file.exists =>
       /\ file.header[1] = gen.num_vars
       /\ file.header[2] = Len(file.lines)
       /\ \A k \in 1..Len(file.lines) :
             /\ Len(file.lines[k]) >= 1
             /\ file.lines[k][Len(file.lines[k])] = 0
             /\ \A m \in 1..(Len(file.lines[k]) - 1) : file.lines[k][m] # 0

\* C13 witness: in the path variant a full rewrite was followed by an
\* incremental append (memory holds the base clauses twice, the file's last
\* line is the clause added last)
C13_Witness ==
    /\ cfg.variant = "path" /\ pc = "loop" /\ file.exists
    /\ Len(file.lines) = PathBaseCount + 1
    /\ Len(gen.clauses) >= 2 * PathBaseCount + 1
    /\ file.lines[Len(file.lines)] = format_clause(gen.clauses[Len(gen.clauses)])

\* C14: an incremental append adds exactly one clause line at the end of
\* the file and raises the header's clause count by one; the header's
\* num_vars and the lines already present, in their order, stay as they were.
C14_AppendLeavesPriorLines ==
    [][(StoreAppend /\ pc' = "loop" /\ Len(gen'.clauses) > Len(gen.clauses))
          => /\ file'.exists
             /\ Len(file'.lines) = Len(file.lines) + 1
             /\ SubSeq(file'.lines, 1, Len(file.lines)) = file.lines
             /\ file'.lines[Len(file'.lines)] =
                   format_clause(gen'.clauses[Len(gen'.clauses)])
             /\ file'.header[1] = file.header[1]
             /\ file'.header[2] = file.header[2] + 1]_vars

\* C14 witness: the file of the qubit-max variant holds, after its generated
\* clauses, one appended line, the clause added to memory last
C14_Witness ==
    /\ cfg.variant = "qubit_max" /\ pc = "loop" /\ file.exists
    /\ store_ops = 1
    /\ Len(gen.clauses) > 1
    /\ file.lines = [k \in 1..Len(gen.clauses) |-> format_clause(gen.clauses[k])]
    /\ \E T \in all_models(SubSeq(gen.clauses, 1, Len(gen.clauses) - 1), gen.num_vars) :
          gen.clauses[Len(gen.clauses)] =
             blocking_clause(gen, model_list(T, gen.num_vars))

\* C15: with an attempt cap N the loop accepts at most N solutions and makes
\* at most N solver calls; once N solutions are accepted it halts flagged as
\* stopped early, with a message other than the one of a loop left on a
\* solver result, and a run stopped at the cap never records UNSAT.
C15_CapStopsEarlyDistinctly ==
    ~IsNone(cfg.max_attempts) =>
       /\ Len(emitted) <= Val(cfg.max_attempts)
       /\ solver_calls <= Val(cfg.max_attempts)
       /\ (pc \in {"final", "done"} /\ tentativo > Val(cfg.max_attempts))
             => stopped_early
       /\ stopped_early =>
             /\ exit_message = "Stop volontario"
             /\ final_status # "UNSAT"
             /\ tentativo > Val(cfg.max_attempts)
       /\ (pc \in {"final", "done"} /\ ~stopped_early)
             => /\ exit_message = "Nessun'altra soluzione SAT (UNSAT o timeout)"
                /\ res.status \notin {"SAT", "none"}

\* C15 witness: a run with cap 2 ended stopped early after two accepted
\* solutions and two solver calls
C15_Witness ==
    /\ pc = "done" /\ stopped_early
    /\ cfg.max_attempts = {2}
    /\ Len(emitted) = 2 /\ solver_calls = 2

\* the four final outcomes of the controller
FinalOutcomes == {"INFEASIBLE", "EXHAUSTED", "STOPPED_EARLY", "INCONCLUSIVE"}

\* C16: every run that terminates has recorded exactly one final status out
\* of INFEASIBLE, EXHAUSTED, STOPPED_EARLY and INCONCLUSIVE, whatever solver
\* results it received.
C16_RunEndsWithOneOfFourOutcomes ==
    pc = "done" => final_status \in FinalOutcomes

\* C17: at most one solver worker exists at any time, and when
\* solve_dimacs_file has returned, with any outcome including a timeout, no
\* worker it started is still running.
C17_NoWorkerOutlivesItsCall ==
    /\ Cardinality(worker.alive) <= 1
    /\ pc # "join" => worker.alive = {}

\* C17 witness: the second solve of a run ended on the deadline with its
\* worker still running, and the call has returned
C17_Witness ==
    /\ cfg.solver = "glucose"
    /\ pc = "result" /\ solver_calls = 2
    /\ res.error = "Timeout expired"
    /\ worker.alive = {}

\* some logical node is left with no candidate chain
SomeNodeWithoutChains ==
    \E i \in cfg.ln :
       i \notin DOMAIN gen.valid_chains \/ Len(gen.valid_chains[i]) = 0

\* C18: in every generator variant, when chain generation leaves a logical
\* node with no candidate chain, embeddable is False, a reject reason is
\* recorded, and generate() has emitted no clause and has not raised.
C18_NoChainsStopsGeneration ==
    (pc # "init" /\ SomeNodeWithoutChains) =>
       /\ ~gen.embeddable
       /\ Len(gen.reject_reasons) > 0
       /\ Len(gen.clauses) = 0
       /\ ~gen.raised
       /\ ~file.exists

\* C19: from variable allocation on, for every (i, idx) of chain_var_map
\* the entry valid_chains[i][idx] exists, so decoding a true chain variable
\* is always defined; no step removes candidates after allocation.
C19_AllocatedChainsStayIndexed ==
    pc # "init" =>
       \A p \in DOMAIN gen.chain_var_map :
          /\ p[1] \in DOMAIN gen.valid_chains
          /\ p[2] < Len(gen.valid_chains[p[1]])

\* the embeddings a run can return from the CNF that generator g wrote to
\* file f: the decodings of the non-empty models of the file; none when
\* generation raised or wrote no file
Admitted(g, f) ==
    IF g.raised \/ ~f.exists THEN {}
    ELSE LET cs == file_clauses(f)
             n  == IF f.header[1] > max_var(cs) THEN f.header[1] ELSE max_var(cs)
         IN  {decode(g, model_list(T, n)) :
                 T \in {U \in all_models(cs, n) : n > 0}}

\* what generate() of the other of the two variants yields on the same input
OtherVariant ==
    generate([cfg EXCEPT !.variant = IF cfg.variant = "subset" THEN "qubit_max"
                                     ELSE "subset"],
             NewGenerator, NoFile)

\* C20: without a cardinality bound, the embeddings admitted by the
\* unit-clause treatment of fixed_mapping (cnf_generator.py) are those
\* admitted by the filtering of cnf_generator_qubit_max.py, on the same
\* graphs and constraints.
C20_FixedMappingTreatmentsAgree ==
    (pc \in {"loop", "crashed"} /\ solver_calls = 0 /\ store_ops = 0
        /\ cfg.variant \in {"subset", "qubit_max"}
        /\ IsNone(cfg.max_total_qubits))
       => Admitted(gen, file) = Admitted(OtherVariant.g, OtherVariant.f)

\* C20 witness: a subset-variant generator with a fixed mapping that admits
\* an embedding and holds more variables than the filtering variant
C20_Witness ==
    /\ pc = "loop" /\ solver_calls = 0 /\ store_ops = 0
    /\ cfg.variant = "subset"
    /\ IsNone(cfg.max_total_qubits)
    /\ Len(cfg.fixed_mapping) > 0
    /\ Admitted(gen, file) # {}
    /\ gen.num_vars > OtherVariant.g.num_vars

\* the chain variables of logical node i that the model makes true
TrueChainVars(i, model) ==
    {p \in DOMAIN gen.chain_var_map :
        /\ p[1] = i
        /\ \E k \in 1..Len(model) : model[k] = gen.chain_var_map[p]}

\* C21: every model the solver returns for the generated clauses makes
\* exactly one chain variable true for each logical node, every returned
\* embedding maps every logical node to one chain, and literals that are no
\* chain variables add nothing to it.
C21_OneChainPerLogicalNode ==
    /\ (pc = "result" /\ res.status = "SAT") =>
          \A i \in cfg.ln : Cardinality(TrueChainVars(i, res.model)) = 1
    /\ \A k \in 1..Len(emitted) : DOMAIN emitted[k] = cfg.ln

\* C22: after every full write, in every generator variant and at any
\* point of the enumeration loop, the clause lines of the file are the
\* in-memory clause list, in order, blocking clauses included.
C22_FullWriteMirrorsMemory ==
    (pc = "loop" /\ store_ops = 0 /\ file.exists)
       => file_clauses(file) = gen.clauses

\* the clause store of the controller and the persisted file
StoreView == <<gen.clauses, gen.num_vars, gen.chain_var_map, file>>

\* C23: a solve call, whatever its outcome, leaves the controller's clause
\* list, num_vars, chain_var_map and the persisted file unchanged; inside
\* the loop the store changes only in the step that blocks an accepted SAT
\* result.
C23_SolveLeavesStoreUnchanged ==
    [][(pc \in {"loop", "join", "result"} /\ StoreView' # StoreView)
          => (pc = "result" /\ res.status = "SAT" /\ pc' = "loop")]_vars

\* a solve call cut off at its deadline has returned in the first round,
\* and the store is the one generate() left
C23_Witness ==
    /\ pc = "result"
    /\ cfg.solver = "glucose"
    /\ res.error = "Timeout expired"
    /\ tentativo = 1
    /\ Len(gen.clauses) > 0
    /\ file.exists
    /\ file_clauses(file) = gen.clauses

\* the chain-variable part of an assignment
OnChainVars(T, num_vars) == T \cap (1..num_vars)

\* the models of the clause list a worker was handed, over its variables
OriginalModels(snapshot) ==
    LET n == IF snapshot.num_vars > max_var(snapshot.clauses)
             THEN snapshot.num_vars ELSE max_var(snapshot.clauses)
    IN  all_models(snapshot.clauses, n)

\* the models of the wrapped clauses with every auxiliary literal assumed
WrappedModels(snapshot) ==
    models_under_assumptions(wrapped_clauses(snapshot), assumptions_of(snapshot))

\* C24: the wrapping of a solve call does not change satisfiability: the
\* auxiliary literal of clause k is num_vars + k + 1, greater than num_vars
\* and different from every other, and with all of them assumed the wrapped
\* clauses are satisfiable exactly when the clause list is, with the same
\* models on the chain variables (an empty clause list has nothing to wrap).
C24_WrappingKeepsModels ==
    worker.pc = "running" =>
       LET s       == worker.snapshot
           aux     == assumptions_of(s)
           wrapped == WrappedModels(s)
           orig    == OriginalModels(s)
       IN  /\ \A k \in 1..Len(aux) : aux[k] = s.num_vars + (k - 1) + 1
           /\ \A k \in 1..Len(aux) : aux[k] > s.num_vars
           /\ \A j, k \in 1..Len(aux) : j # k => aux[j] # aux[k]
           /\ (wrapped = {}) <=> (orig = {})
           /\ Len(s.clauses) > 0 =>
                 {OnChainVars(m.T, s.num_vars) : m \in wrapped}
                    = {OnChainVars(T, s.num_vars) : T \in orig}

\* a worker runs in the second round on a satisfiable clause list that
\* holds a blocking clause
C24_Witness ==
    /\ worker.pc = "running"
    /\ tentativo = 2
    /\ Len(worker.snapshot.clauses) > 1
    /\ WrappedModels(worker.snapshot) # {}

\* the choices of one candidate chain per logical node, each chain named
\* by its 0-based position in valid_chains
CandidateChoices ==
    IF \E i \in cfg.ln : i \notin DOMAIN gen.valid_chains
    THEN {}
    ELSE LET most == CHOOSE n \in {Len(gen.valid_chains[i]) : i \in cfg.ln} :
                        \A i \in cfg.ln : Len(gen.valid_chains[i]) <= n
         IN  {a \in [cfg.ln -> 0..(most - 1)] :
                 \A i \in cfg.ln : a[i] < Len(gen.valid_chains[i])}

ChosenChains(a) == [i \in cfg.ln |-> gen.valid_chains[i][a[i] + 1]]

\* the truth assignment of a choice: the variables of the chosen chains
ChosenVars(a) == {gen.chain_var_map[<<i, a[i]>>] : i \in cfg.ln}

\* a choice is valid: disjoint chains, every logical edge realized, the
\* fixed mapping respected, the qubit budget (when set) not exceeded
ValidChoice(a) ==
    /\ IsEmbedding(ChosenChains(a))
    /\ \A k \in 1..Len(cfg.fixed_mapping) :
          cfg.fixed_mapping[k][1] \in cfg.ln =>
             cfg.fixed_mapping[k][2] \subseteq Range(ChosenChains(a)[cfg.fixed_mapping[k][1]])
    /\ ~IsNone(cfg.max_total_qubits) =>
          TotalQubits(ChosenChains(a)) <= Val(cfg.max_total_qubits)

\* C25: the base encoding is complete: every valid choice of one candidate
\* chain per logical node satisfies every clause emitted by generate().
C25_BaseEncodingComplete ==
    (pc \in {"loop", "crashed"} /\ solver_calls = 0 /\ store_ops = 0) =>
       \A a \in CandidateChoices :
          ValidChoice(a) =>
             \A k \in 1..Len(gen.clauses) : satisfies(ChosenVars(a), gen.clauses[k])

\* generate() of the qubit-max variant has emitted clauses under a budget
\* and a fixed mapping; some choice is valid and some is not
C25_Witness ==
    /\ pc = "loop" /\ tentativo = 1 /\ store_ops = 0
    /\ cfg.variant = "qubit_max"
    /\ ~IsNone(cfg.max_total_qubits)
    /\ Len(gen.clauses) > 0
    /\ \E a \in CandidateChoices : ValidChoice(a)
    /\ \E a \in CandidateChoices : ~ValidChoice(a)

\* the chain-variable assignments that satisfy the clauses the installed
\* solver is given: the lines of the persisted file for the file-based
\* solver, the clause list of cnf_gen for the worker of solver_interface.py
StoreAssignments(g, f) ==
    LET cs == IF cfg.solver = "cripto" THEN file_clauses(f) ELSE g.clauses
    IN  {OnChainVars(T, g.num_vars) : T \in all_models(cs, g.num_vars)}

\* C26: with no attempt cap the enumeration loop terminates, because each
\* accepted solution strictly shrinks the finite set of chain-variable
\* assignments that satisfy the store, so that after finitely many rounds a
\* solve returns a non-SAT result.
C26_AcceptedSolutionShrinksStore ==
    [][(IsNone(cfg.max_attempts) /\ pc = "result" /\ pc' = "loop")
          => /\ StoreAssignments(gen', file') \subseteq StoreAssignments(gen, file)
             /\ StoreAssignments(gen', file') # StoreAssignments(gen, file)]_vars

\* the chain variables a model makes true
TrueChainVarsOf(model) ==
    {gen.chain_var_map[p] : p \in DOMAIN gen.chain_var_map}
       \cap {model[k] : k \in {m \in 1..Len(model) : model[m] > 0}}

\* the calls of add_blocking_clause_from_model a client can make: a model,
\* and whether a dimacs_path is passed (cnf_generator.py takes none)
BlockingCalls ==
    store_models \X (IF cfg.variant = "subset" THEN {FALSE} ELSE BOOLEAN)

\* the call raises on opening a file that was never written
BlockingRaises(dimacs_path) ==
    dimacs_path /\ cfg.variant # "subset" /\ ~file.exists

\* clauses is before with exactly one clause added, of the given literals
OneClauseAdded(before, clauses, lits) ==
    /\ Len(clauses) = Len(before) + 1
    /\ SubSeq(clauses, 1, Len(before)) = before
    /\ Range(clauses[Len(clauses)]) = lits
    /\ Len(clauses[Len(clauses)]) = Cardinality(lits)

\* a clause of the given literals is already stored
ClauseKnown(lits) ==
    \E k \in 1..Len(gen.clauses) :
       Range(gen.clauses[k]) = lits /\ Len(gen.clauses[k]) = Cardinality(lits)

\* C27 as stated: add_blocking_clause_from_model called with a model that
\* has no true chain variable returns False and leaves the clause list and
\* the file unchanged; in every other case it returns True and adds exactly
\* one clause, the negations of exactly the model's true chain variables.
C27_BlockingAddsExactlyOneClause ==
    pc = "loop" =>
       \A call \in BlockingCalls :
          LET r    == add_blocking_clause_from_model(cfg, gen, file, call[1], call[2])
              negs == {-v : v \in TrueChainVarsOf(call[1])}
          IN  IF negs = {}
              THEN ~r.ret /\ r.g.clauses = gen.clauses /\ r.f = file
              ELSE /\ r.ret /\ ~r.raised
                   /\ OneClauseAdded(gen.clauses, r.g.clauses, negs)

\* C27 amended: with no true chain variable the call returns False and
\* changes neither the clause list nor the file.  Otherwise the clause of
\* the negations of exactly the true chain variables is appended as one
\* clause and the call returns True, with two exceptions: the
\* de-duplicating variant returns True and adds nothing when a clause of
\* the same literals is already stored, and a call that is given the path
\* of a file that was never written raises after the clause went to memory.
C27_BlockingAddsClauseUnlessKnown ==
    pc = "loop" =>
       \A call \in BlockingCalls :
          LET r    == add_blocking_clause_from_model(cfg, gen, file, call[1], call[2])
              negs == {-v : v \in TrueChainVarsOf(call[1])}
          IN  IF negs = {}
              THEN ~r.ret /\ r.g.clauses = gen.clauses /\ r.f = file
              ELSE /\ IF BlockingRaises(call[2])
                      THEN r.raised /\ ~r.ret /\ r.f = file
                      ELSE r.ret /\ ~r.raised
                   /\ IF cfg.variant = "subset" /\ ClauseKnown(negs)
                      THEN r.g.clauses = gen.clauses
                      ELSE OneClauseAdded(gen.clauses, r.g.clauses, negs)

\* the de-duplicating variant holds the blocking clause of a model that a
\* client can hand over again
C27_Witness ==
    /\ pc = "loop" /\ cfg.variant = "subset" /\ store_ops >= 1
    /\ \E model \in store_models :
          /\ TrueChainVarsOf(model) # {}
          /\ ClauseKnown({-v : v \in TrueChainVarsOf(model)})
    /\ \E model \in store_models : TrueChainVarsOf(model) = {}

====
